---- MODULE Spec2Model ----
(***************************************************************************)
(* Model of the railway dashboard's data hook (useRealTimeData), its two   *)
(* transform functions, the API client (APIService) and the dashboard      *)
(* wiring that calls the hook and shows its notifications.                 *)
(*                                                                         *)
(* Granularity: JavaScript runs each callback to its next `await` without  *)
(* interruption and React batches the state setters of one such run, so    *)
(* one action is the code of a handler between two awaits: the start of an *)
(* operation up to its first request, or the arrival of a response up to   *)
(* the next request or the end of the operation.                           *)
(*                                                                         *)
(* Absent optional fields of a backend record (due_time,                   *)
(* current_delay_minutes) are fields missing from the record's DOMAIN.     *)
(* Template strings are sequences of their parts.  Times are milliseconds; *)
(* an ISO timestamp is represented by the instant it denotes.              *)
(***************************************************************************)
EXTENDS Integers, Sequences, FiniteSets, TLC

VARIABLES
    trains,        \* useState: UI train list
    conflicts,     \* useState: UI conflict list
    isConnected,   \* useState
    lastUpdate,    \* useState: time of the last successful fetch
    loading,       \* useState
    error,         \* useState: message or Null
    tasks,         \* async invocations awaiting a backend response, oldest first
    now,           \* Date.now()
    mounted,       \* the dashboard's initial-load effect has run
    selectedTrain, \* ControlPanel's selected train id ("" when none)
    ev,            \* history: the event that led to this state
    calls,         \* number of operations the user has started
    toasts,        \* titles of the notifications the last event has shown
    phase,         \* history: "mounting", then "mountOk" or "mountFailed" until
                   \* the user starts an operation, "userActed" from then on
    tin,           \* transform check: the backend state given to the transform
    tclock,        \* transform check: Date.now() during the transform
    tout,          \* transform check: the transform's result
    invocations,   \* API check: the APIService method calls made, in order
    wire           \* API check: the HTTP requests given to fetch(), in order

hookVars == <<trains, conflicts, isConnected, lastUpdate, loading, error>>
histVars == <<ev, phase>>
xformVars == <<tin, tclock, tout>>
apiVars == <<invocations, wire>>
vars == <<trains, conflicts, isConnected, lastUpdate, loading, error, tasks,
          now, mounted, selectedTrain, calls, ev, phase, toasts, tin, tclock,
          tout, invocations, wire>>

----------------------------------------------------------------------------
(* Bounds *)

MaxInFlight == 2
MaxTicks == 1
MaxCalls == 3
MaxInvocations == 2

(* Program constants *)

Null == "null"
RefreshMs == 30000
MsPerSecond == 1000
DefaultPriority == 1
DefaultDeparture == 0
SectionCapacity == 1

----------------------------------------------------------------------------
(* JavaScript helpers *)

Has(r, f) == f \in DOMAIN r

\* optional numeric field read through `x || 0`
NumOrZero(r, f) == IF Has(r, f) /\ r[f] # 0 THEN r[f] ELSE 0

\* arr[i] of a string array is truthy (i is the 0-based JavaScript index)
TruthyAt(arr, i) == i + 1 <= Len(arr) /\ arr[i + 1] # ""

\* Math.floor(a / b) for b > 0
FloorDiv(a, b) == a \div b

\* new Date(ms).toISOString(): the timestamp denoting the instant ms
ToISOString(ms) == ms

\* new Date(iso).getTime()
GetTime(iso) == iso

\* arr.join(sep) as the sequence of its pieces
RECURSIVE Join(_, _)
Join(arr, sep) ==
    IF Len(arr) = 0 THEN <<>>
    ELSE IF Len(arr) = 1 THEN <<arr[1]>>
    ELSE <<arr[1], sep>> \o Join(Tail(arr), sep)

----------------------------------------------------------------------------
(* Transform functions *)

\* mutant: a zero delay counts as delayed
TrainStatusOfInclusive(train) ==
    IF Has(train, "current_delay_minutes") /\ train.current_delay_minutes >= 0
    THEN "delayed" ELSE "on-time"

TrainStatusOf(train) ==
    IF Has(train, "current_delay_minutes") /\ train.current_delay_minutes # 0
       /\ train.current_delay_minutes > 0
    THEN "delayed" ELSE "on-time"

\* mutant: the eta is counted from the epoch, not from the current time
FrontendTrainFixedEta(train, clock) ==
    [ id |-> train.id,
      name |-> <<"Train ", train.id>>,
      status |-> TrainStatusOf(train),
      currentLocation |->
          IF TruthyAt(train.route_sections, 0) THEN train.route_sections[1]
          ELSE "Unknown",
      delay |-> NumOrZero(train, "current_delay_minutes"),
      nextStation |->
          IF TruthyAt(train.route_sections, 1) THEN train.route_sections[2]
          ELSE IF TruthyAt(train.route_sections, 0) THEN train.route_sections[1]
          ELSE "Terminal",
      eta |-> ToISOString(NumOrZero(train, "due_time") * MsPerSecond) ]

\* mutant: a route of one section has no next station
FrontendTrainNoFallback(train, clock) ==
    [ id |-> train.id,
      name |-> <<"Train ", train.id>>,
      status |-> TrainStatusOf(train),
      currentLocation |->
          IF TruthyAt(train.route_sections, 0) THEN train.route_sections[1]
          ELSE "Unknown",
      delay |-> NumOrZero(train, "current_delay_minutes"),
      nextStation |->
          IF TruthyAt(train.route_sections, 1) THEN train.route_sections[2]
          ELSE "Terminal",
      eta |-> ToISOString(clock + NumOrZero(train, "due_time") * MsPerSecond) ]

FrontendTrain(train, clock) ==
    [ id |-> train.id,
      name |-> <<"Train ", train.id>>,
      status |-> TrainStatusOf(train),
      currentLocation |->
          IF TruthyAt(train.route_sections, 0) THEN train.route_sections[1]
          ELSE "Unknown",
      delay |-> NumOrZero(train, "current_delay_minutes"),
      nextStation |->
          IF TruthyAt(train.route_sections, 1) THEN train.route_sections[2]
          ELSE IF TruthyAt(train.route_sections, 0) THEN train.route_sections[1]
          ELSE "Terminal",
      eta |-> ToISOString(clock + NumOrZero(train, "due_time") * MsPerSecond) ]

transformBackendToFrontend(backendState, clock) ==
    [ trains |-> [i \in 1..Len(backendState.trains) |->
                     FrontendTrain(backendState.trains[i], clock)],
      sections |-> backendState.sections ]

FixedSections ==
    << [id |-> "S1", platform_capacity |-> SectionCapacity],
       [id |-> "S2", platform_capacity |-> SectionCapacity],
       [id |-> "S3", platform_capacity |-> SectionCapacity] >>

\* mutant: the route lists the next station before the current location
BackendTrainOfSwapped(train, clock) ==
    [ id |-> train.id,
      priority |-> DefaultPriority,
      planned_departure |-> DefaultDeparture,
      route_sections |-> <<train.nextStation, train.currentLocation>>,
      due_time |-> FloorDiv(GetTime(train.eta) - clock, MsPerSecond),
      current_delay_minutes |-> train.delay ]

\* mutant: a train whose next station is its current location gets a route of
\* one section
BackendTrainOfDedup(train, clock) ==
    [ id |-> train.id,
      priority |-> DefaultPriority,
      planned_departure |-> DefaultDeparture,
      route_sections |->
          IF train.currentLocation = train.nextStation
          THEN <<train.currentLocation>>
          ELSE <<train.currentLocation, train.nextStation>>,
      due_time |-> FloorDiv(GetTime(train.eta) - clock, MsPerSecond),
      current_delay_minutes |-> train.delay ]

BackendTrainOf(train, clock) ==
    [ id |-> train.id,
      priority |-> DefaultPriority,
      planned_departure |-> DefaultDeparture,
      route_sections |-> <<train.currentLocation, train.nextStation>>,
      due_time |-> FloorDiv(GetTime(train.eta) - clock, MsPerSecond),
      current_delay_minutes |-> train.delay ]

\* mutant: an empty train list is sent without sections
transformFrontendToBackendNoSections(uiTrains, clock) ==
    [ trains |-> [i \in 1..Len(uiTrains) |-> BackendTrainOf(uiTrains[i], clock)],
      sections |-> IF uiTrains = <<>> THEN <<>> ELSE FixedSections ]

transformFrontendToBackend(uiTrains, clock) ==
    [ trains |-> [i \in 1..Len(uiTrains) |-> BackendTrainOf(uiTrains[i], clock)],
      sections |-> FixedSections ]

\* mutant: the resolution names the first train of the conflict only
FrontendConflictFirstTrain(conflict, index) ==
    [ id |-> <<"conflict-", index>>,
      trains |-> conflict.train_ids,
      location |-> conflict.section_id,
      severity |-> "medium",
      timeToConflict |-> conflict.predicted_conflict_time,
      aiResolution |-> <<"Reroute ", <<conflict.train_ids[1]>>,
                         " through alternative sections">> ]

\* the conflict mapping of fetchLiveData
FrontendConflict(conflict, index) ==
    [ id |-> <<"conflict-", index>>,
      trains |-> conflict.train_ids,
      location |-> conflict.section_id,
      severity |-> "medium",
      timeToConflict |-> conflict.predicted_conflict_time,
      aiResolution |-> <<"Reroute ", Join(conflict.train_ids, ", "),
                         " through alternative sections">> ]

FrontendConflicts(predictions) ==
    [i \in 1..Len(predictions.predicted_conflicts) |->
        FrontendConflict(predictions.predicted_conflicts[i], i - 1)]

----------------------------------------------------------------------------
(* The backend: the responses it may give *)

NoState == [trains |-> <<>>, sections |-> <<>>]

SnapA ==
    [ trains |->
        << [id |-> "T1", priority |-> 2, planned_departure |-> 5,
            route_sections |-> <<"S1", "S2">>, due_time |-> 60,
            current_delay_minutes |-> 7],
           [id |-> "T2", priority |-> 1, planned_departure |-> 0,
            route_sections |-> <<"S3">>] >>,
      sections |-> << [id |-> "S1", platform_capacity |-> 2], [id |-> "S2"] >> ]

SnapB ==
    [ trains |->
        << [id |-> "T1", priority |-> 3, planned_departure |-> 9,
            route_sections |-> <<"S2", "S3", "S1">>, due_time |-> 0,
            current_delay_minutes |-> 3] >>,
      sections |-> << [id |-> "S2"] >> ]

Snapshots == {SnapA, SnapB}

PredNone == [predicted_delay_minutes |-> <<>>, predicted_conflicts |-> <<>>]

PredOne ==
    [ predicted_delay_minutes |-> <<>>,
      predicted_conflicts |->
        << [train_ids |-> <<"T1", "T2">>, section_id |-> "S2",
            predicted_conflict_time |-> 12] >> ]

PredTwo ==
    [ predicted_delay_minutes |-> <<>>,
      predicted_conflicts |->
        << [train_ids |-> <<"T1", "T2">>, section_id |-> "S2",
            predicted_conflict_time |-> 12],
           [train_ids |-> <<"T3">>, section_id |-> "S1",
            predicted_conflict_time |-> 0] >> ]

Predictions == {PredNone, PredTwo}

\* message of the error a request throws on a non-2xx status
Failures == {"API request failed: 500 Internal Server Error"}

Actions == {"hold", "expedite", "reroute"}

----------------------------------------------------------------------------
(* Invocations in flight *)

FetchPcs == {"snapshot", "predict"}

\* an invocation that starts (or has reached) its fetchLiveData; the last four
\* fields are history: it began while an error was displayed, a failure was
\* recorded while it was in flight, a fetch begun after it completed before it,
\* the train list is as its own snapshot reply left it
FetchTask(op, caller, useLive) ==
    [ op |-> op, caller |-> caller, pc |-> "snapshot", useLive |-> useLive,
      state |-> NoState, preds |-> <<>>,
      afterFailure |-> error # Null, failedSince |-> FALSE, overtaken |-> "no",
      trainsIntact |-> FALSE ]

\* an invocation of optimizeSchedule or resolveConflicts awaiting its first reply
PayloadTask(op, caller, pc, payload) ==
    [ op |-> op, caller |-> caller, pc |-> pc, useLive |-> FALSE,
      state |-> payload, preds |-> <<>>,
      afterFailure |-> FALSE, failedSince |-> FALSE, overtaken |-> "no",
      trainsIntact |-> FALSE ]

NoTask == PayloadTask("none", "none", "none", NoState)

Without(seq, i) == SubSeq(seq, 1, i - 1) \o SubSeq(seq, i + 1, Len(seq))

\* history: a failure was recorded while these fetches were in flight
MarkFailed(seq) ==
    [j \in 1..Len(seq) |->
        IF seq[j].pc \in FetchPcs THEN [seq[j] EXCEPT !.failedSince = TRUE]
        ELSE seq[j]]

\* history: the fetch in place i completed before the fetches begun before it
MarkOvertaken(seq, i, outcome) ==
    [j \in 1..Len(seq) |->
        IF j < i /\ seq[j].pc \in FetchPcs THEN [seq[j] EXCEPT !.overtaken = outcome]
        ELSE seq[j]]

\* history: the train list was written while these fetches were in flight
MarkTrainsWritten(seq) ==
    [j \in 1..Len(seq) |-> [seq[j] EXCEPT !.trainsIntact = FALSE]]

\* history: an event that is no reply
Event(kind, op, startsFetch) ==
    [ kind |-> kind, op |-> op, pc |-> "none", ok |-> TRUE, action |-> "none",
      startsFetch |-> startsFetch, task |-> NoTask, snapshot |-> NoState,
      replyState |-> NoState, replyPreds |-> PredNone, replyError |-> Null ]

\* history: the reply to the request `task` was awaiting; snapshot is the
\* backend state a fetch awaiting its /predict reply had received
Reply(task, ok, startsFetch, backendState, predictions, message) ==
    [ kind |-> "reply", op |-> task.op, pc |-> task.pc, ok |-> ok,
      action |-> "none", startsFetch |-> startsFetch,
      task |-> [task EXCEPT !.state = NoState, !.preds = <<>>],
      snapshot |-> IF task.pc = "predict" THEN task.state ELSE NoState,
      replyState |-> backendState, replyPreds |-> predictions,
      replyError |-> message ]

MountOutcome(task, ok) ==
    IF task.caller = "mount" /\ phase = "mounting"
    THEN (IF ok THEN "mountOk" ELSE "mountFailed")
    ELSE phase

----------------------------------------------------------------------------
(* The hook's state writes *)

\* mutant: a fetch clears the error without raising the loading flag
FetchBeginsQuietly == loading' = loading /\ error' = Null

\* fetchLiveData, first lines: setLoading(true); setError(null)
FetchBegins == loading' = TRUE /\ error' = Null

\* mutant: the snapshot keeps the status of the trains edited locally
SnapshotWritesKeepLocal(backendState) ==
    /\ trains' =
          [i \in 1..Len(backendState.trains) |->
              LET fresh == FrontendTrain(backendState.trains[i], now)
                  edited == {j \in 1..Len(trains) :
                                /\ trains[j].id = fresh.id
                                /\ trains[j].status \in
                                      {"held", "expedited", "rerouting"}}
              IN  IF edited = {} THEN fresh
                  ELSE [fresh EXCEPT !.status = trains[CHOOSE j \in edited : TRUE].status]]
    /\ UNCHANGED <<conflicts, isConnected, lastUpdate, loading, error>>

\* mutant: the hook is marked connected as soon as the snapshot has arrived
SnapshotWritesConnects(backendState) ==
    /\ trains' = transformBackendToFrontend(backendState, now).trains
    /\ isConnected' = TRUE
    /\ UNCHANGED <<conflicts, lastUpdate, loading, error>>

\* mutant: the snapshot's trains are added to the trains already listed
SnapshotWritesMerge(backendState) ==
    /\ trains' =
          LET fresh == transformBackendToFrontend(backendState, now).trains
              stale == SelectSeq(trains,
                           LAMBDA t : \A i \in 1..Len(fresh) : fresh[i].id # t.id)
          IN  fresh \o stale
    /\ UNCHANGED <<conflicts, isConnected, lastUpdate, loading, error>>

\* fetchLiveData after a successful /live/snapshot
SnapshotWrites(backendState) ==
    /\ trains' = transformBackendToFrontend(backendState, now).trains
    /\ UNCHANGED <<conflicts, isConnected, lastUpdate, loading, error>>

\* mutant: conflicts already listed are kept when a fetch succeeds
FetchSuccessWritesKeepsConflicts(predictions) ==
    /\ conflicts' = IF conflicts # <<>> THEN conflicts
                    ELSE FrontendConflicts(predictions)
    /\ isConnected' = TRUE
    /\ lastUpdate' = now
    /\ loading' = FALSE
    /\ UNCHANGED <<trains, error>>

\* fetchLiveData after a successful /predict
FetchSuccessWrites(predictions) ==
    /\ conflicts' = FrontendConflicts(predictions)
    /\ isConnected' = TRUE
    /\ lastUpdate' = now
    /\ loading' = FALSE
    /\ UNCHANGED <<trains, error>>

\* mutant: a failed fetch clears the conflict list
FetchFailureWritesClears(message) ==
    /\ error' = message
    /\ isConnected' = FALSE
    /\ loading' = FALSE
    /\ conflicts' = <<>>
    /\ UNCHANGED <<trains, lastUpdate>>

\* mutant: loading is not reset on the failure path
FetchFailureWritesNoFinally(message) ==
    /\ error' = message
    /\ isConnected' = FALSE
    /\ UNCHANGED <<trains, conflicts, lastUpdate, loading>>

\* mutant: a failed fetch stamps the time of the attempt
FetchFailureWritesStamps(message) ==
    /\ error' = message
    /\ isConnected' = FALSE
    /\ lastUpdate' = now
    /\ loading' = FALSE
    /\ UNCHANGED <<trains, conflicts>>

\* fetchLiveData, catch and finally
FetchFailureWrites(message) ==
    /\ error' = message
    /\ isConnected' = FALSE
    /\ loading' = FALSE
    /\ UNCHANGED <<trains, conflicts, lastUpdate>>

\* mutant: the optimized schedule is applied to the train list
OptimizeSuccessWritesApply ==
    /\ loading' = FALSE
    /\ trains' = [i \in 1..Len(trains) |->
                     [trains[i] EXCEPT !.status = "on-time", !.delay = 0]]
    /\ UNCHANGED <<conflicts, isConnected, lastUpdate, error>>

\* mutant: a successful optimization clears the error
OptimizeSuccessWritesClearsError ==
    /\ loading' = FALSE
    /\ error' = Null
    /\ UNCHANGED <<trains, conflicts, isConnected, lastUpdate>>

\* optimizeSchedule, after a successful /schedule and finally
OptimizeSuccessWrites ==
    /\ loading' = FALSE
    /\ UNCHANGED <<trains, conflicts, isConnected, lastUpdate, error>>

\* mutant: a failed optimization marks the hook disconnected
OptimizeFailureWritesDisconnect(message) ==
    /\ error' = message
    /\ isConnected' = FALSE
    /\ loading' = FALSE
    /\ UNCHANGED <<trains, conflicts, lastUpdate>>

\* optimizeSchedule, catch and finally
OptimizeFailureWrites(message) ==
    /\ error' = message
    /\ loading' = FALSE
    /\ UNCHANGED <<trains, conflicts, isConnected, lastUpdate>>

\* resolveConflicts, catch and finally
ResolveFailureWrites(message) ==
    /\ error' = message
    /\ loading' = FALSE
    /\ UNCHANGED <<trains, conflicts, isConnected, lastUpdate>>

\* mutant: a rerouted train is also marked in its location, as ControlPanel's
\* local fallback does
EditedTrainRelocates(train, trainId, action) ==
    IF train.id # trainId THEN train
    ELSE IF action = "hold" THEN [train EXCEPT !.status = "held"]
    ELSE IF action = "expedite" THEN
        [train EXCEPT !.status = "expedited",
                      !.delay = IF train.delay - 5 > 0 THEN train.delay - 5 ELSE 0]
    ELSE IF action = "reroute" THEN
        [train EXCEPT !.status = "rerouting",
                      !.currentLocation = <<train.currentLocation, " (Rerouted)">>]
    ELSE train

\* mutant: expedite subtracts its five minutes without the floor at zero
EditedTrainUnclamped(train, trainId, action) ==
    IF train.id # trainId THEN train
    ELSE IF action = "hold" THEN [train EXCEPT !.status = "held"]
    ELSE IF action = "expedite" THEN
        [train EXCEPT !.status = "expedited", !.delay = train.delay - 5]
    ELSE IF action = "reroute" THEN [train EXCEPT !.status = "rerouting"]
    ELSE train

\* handleTrainAction's updater for one train
EditedTrain(train, trainId, action) ==
    IF train.id # trainId THEN train
    ELSE IF action = "hold" THEN [train EXCEPT !.status = "held"]
    ELSE IF action = "expedite" THEN
        [train EXCEPT !.status = "expedited",
                      !.delay = IF train.delay - 5 > 0 THEN train.delay - 5 ELSE 0]
    ELSE IF action = "reroute" THEN [train EXCEPT !.status = "rerouting"]
    ELSE train

OptimisticEdit(list, trainId, action) ==
    [i \in 1..Len(list) |-> EditedTrain(list[i], trainId, action)]

\* ControlPanel's button labels: the delay the action announces
LabelledDelay(action, delay) ==
    IF action = "hold" THEN delay + 5
    ELSE IF action = "expedite" THEN (IF delay - 3 > 0 THEN delay - 3 ELSE 0)
    ELSE IF action = "reroute" THEN delay + 2
    ELSE delay

\* ControlPanel's local fallback (taken when no onTrainAction is supplied): the
\* updates it hands to onTrainUpdate
LocalTrainUpdate(train, action) ==
    IF action = "hold" THEN [status |-> "delayed", delay |-> train.delay + 5]
    ELSE IF action = "expedite" THEN
        [delay |-> IF train.delay - 3 > 0 THEN train.delay - 3 ELSE 0]
    ELSE IF action = "reroute" THEN
        [currentLocation |-> <<train.currentLocation, " (Rerouted)">>,
         delay |-> train.delay + 2]
    ELSE <<>>

----------------------------------------------------------------------------
(* The dashboard's notifications *)

\* mutant: fetchLiveData rethrows the failure it has recorded
FetchLiveDataRethrows(ok) == IF ok THEN "fulfilled" ELSE "rejected"

\* how the promise of fetchLiveData settles: its catch block handles every
\* failure of the two requests and rethrows nothing
FetchLiveDataSettles(ok) == "fulfilled"

\* handleConnectBackend: the try block reports after `await fetchLiveData(true)`,
\* the catch block after its fetchLiveData(false)
ConnectToast(settled) ==
    IF settled = "fulfilled" THEN "Connected Successfully" ELSE "Demo Mode"

\* the report of the dashboard handler whose hook operation has returned
HandlerToasts(task) ==
    IF task.caller = "connect" THEN {ConnectToast(FetchLiveDataSettles(ev'.ok))}
    ELSE IF task.op = "optimize" THEN {"Schedule Optimized"}
    ELSE IF task.op = "resolve" THEN {"Conflicts Resolved"}
    ELSE {}

\* the error effect: runs when error has changed, reports when it is a message
ErrorToasts == IF error' # error /\ error' # Null THEN {"Connection Error"} ELSE {}

\* the notifications a reply causes; returns: the hook operation ends with it
ReplyToasts(task, returns) ==
    (IF returns THEN HandlerToasts(task) ELSE {}) \cup ErrorToasts

----------------------------------------------------------------------------
(* Initial state: the hook after its first render, before any effect *)

HookInit ==
    /\ trains = <<>>
    /\ conflicts = <<>>
    /\ isConnected = FALSE
    /\ lastUpdate = 0
    /\ loading = FALSE
    /\ error = Null
    /\ tasks = <<>>
    /\ now = 0
    /\ mounted = FALSE
    /\ selectedTrain = ""
    /\ calls = 0
    /\ ev = Event("init", "none", FALSE)
    /\ phase = "mounting"
    /\ toasts = {}

\* transform check: nothing transformed yet
XformIdle ==
    [ stage |-> "input", ui |-> <<>>, at |-> 0, again |-> <<>>, atAgain |-> 0,
      back |-> NoState ]

Init ==
    /\ HookInit
    /\ tin = NoState
    /\ tclock = 0
    /\ tout = XformIdle
    /\ invocations = <<>>
    /\ wire = <<>>

CanStart == mounted /\ Len(tasks) < MaxInFlight /\ calls < MaxCalls

----------------------------------------------------------------------------
(* Dashboard and timer: what starts an operation *)

\* TrafficDashboard's initial data load effect: fetchLiveData()
Mount ==
    /\ ~mounted
    /\ mounted' = TRUE
    /\ FetchBegins
    /\ tasks' = Append(tasks, FetchTask("fetch", "mount", FALSE))
    /\ ev' = Event("mount", "fetch", TRUE)
    /\ toasts' = {}
    /\ UNCHANGED <<trains, conflicts, isConnected, lastUpdate, now, selectedTrain,
                   phase, calls, tin, tclock, tout, apiVars>>

\* mutant: the interval callback fetches whatever the connection state
TimerFiresAlways(connected) ==
    /\ Len(tasks) < MaxInFlight
    /\ FetchBegins
    /\ tasks' = Append(tasks, FetchTask("fetch", "timer", FALSE))
    /\ ev' = Event("tick", "fetch", TRUE)
    /\ toasts' = {}
    /\ UNCHANGED <<trains, conflicts, isConnected, lastUpdate>>

\* mutant: the interval callback also retries while an error is displayed
TimerFiresRetry(connected) ==
    \/ /\ (connected \/ error # Null)
       /\ Len(tasks) < MaxInFlight
       /\ FetchBegins
       /\ tasks' = Append(tasks, FetchTask("fetch", "timer", FALSE))
       /\ ev' = Event("tick", "fetch", TRUE)
       /\ toasts' = {}
       /\ UNCHANGED <<trains, conflicts, isConnected, lastUpdate>>
    \/ /\ ~(connected \/ error # Null)
       /\ ev' = Event("tick", "none", FALSE)
       /\ toasts' = {}
       /\ UNCHANGED <<trains, conflicts, isConnected, lastUpdate, loading,
                      error, tasks>>

\* the interval callback: if (isConnected) fetchLiveData()
TimerFires(connected) ==
    \/ /\ connected
       /\ Len(tasks) < MaxInFlight
       /\ FetchBegins
       /\ tasks' = Append(tasks, FetchTask("fetch", "timer", FALSE))
       /\ ev' = Event("tick", "fetch", TRUE)
       /\ toasts' = {}
       /\ UNCHANGED <<trains, conflicts, isConnected, lastUpdate>>
    \/ /\ ~connected
       /\ ev' = Event("tick", "none", FALSE)
       /\ toasts' = {}
       /\ UNCHANGED <<trains, conflicts, isConnected, lastUpdate, loading,
                      error, tasks>>

\* the auto-refresh interval elapses
TimerTick ==
    /\ mounted
    /\ now < MaxTicks * RefreshMs
    /\ now' = now + RefreshMs
    /\ TimerFires(isConnected)
    /\ UNCHANGED <<mounted, selectedTrain, phase, calls, tin, tclock, tout, apiVars>>

\* Refresh button: fetchLiveData()
Refresh ==
    /\ CanStart
    /\ ~loading
    /\ FetchBegins
    /\ tasks' = Append(tasks, FetchTask("fetch", "refresh", FALSE))
    /\ ev' = Event("call", "fetch", TRUE)
    /\ toasts' = {}
    /\ phase' = "userActed"
    /\ calls' = calls + 1
    /\ UNCHANGED <<trains, conflicts, isConnected, lastUpdate, now, mounted,
                   selectedTrain, tin, tclock, tout, apiVars>>

\* Connect button: handleConnectBackend, fetchLiveData(true)
Connect ==
    /\ CanStart
    /\ ~loading
    /\ FetchBegins
    /\ tasks' = Append(tasks, FetchTask("fetch", "connect", TRUE))
    /\ ev' = Event("call", "fetch", TRUE)
    /\ toasts' = {}
    /\ phase' = "userActed"
    /\ calls' = calls + 1
    /\ UNCHANGED <<trains, conflicts, isConnected, lastUpdate, now, mounted,
                   selectedTrain, tin, tclock, tout, apiVars>>

\* ControlPanel's train selector
SelectTrain ==
    /\ mounted
    /\ \E i \in 1..Len(trains) :
          /\ trains[i].id # selectedTrain
          /\ selectedTrain' = trains[i].id
    /\ ev' = Event("select", "none", FALSE)
    /\ toasts' = {}
    /\ UNCHANGED <<trains, conflicts, isConnected, lastUpdate, loading, error,
                   tasks, now, mounted, phase, calls, tin, tclock, tout, apiVars>>

\* optimizeSchedule, up to its request
OptimizeBegins(uiTrains) ==
    /\ loading' = TRUE
    /\ tasks' = Append(tasks, PayloadTask("optimize", "panel", "schedule",
                                          transformFrontendToBackend(uiTrains, now)))
    /\ UNCHANGED <<trains, conflicts, isConnected, lastUpdate, error>>

\* ControlPanel's Optimize button: handleOptimize, optimizeSchedule()
Optimize ==
    /\ CanStart
    /\ ~loading
    /\ selectedTrain # ""
    /\ OptimizeBegins(trains)
    /\ ev' = Event("call", "optimize", FALSE)
    /\ toasts' = {}
    /\ phase' = "userActed"
    /\ calls' = calls + 1
    /\ UNCHANGED <<now, mounted, selectedTrain, tin, tclock, tout, apiVars>>

\* resolveConflicts, up to its first request
ResolveBegins(caller) ==
    /\ CanStart
    /\ conflicts # <<>>
    /\ loading' = TRUE
    /\ tasks' = Append(tasks, PayloadTask("resolve", caller, "rpredict",
                                          transformFrontendToBackend(trains, now)))
    /\ ev' = Event("call", "resolve", FALSE)
    /\ toasts' = {}
    /\ phase' = "userActed"
    /\ calls' = calls + 1
    /\ UNCHANGED <<trains, conflicts, isConnected, lastUpdate, error, now, mounted,
                   selectedTrain, tin, tclock, tout, apiVars>>

\* "Resolve All Conflicts" button (disabled while loading): handleResolveAll
ResolveAll == ~loading /\ ResolveBegins("resolveAll")

\* a resolve button of a ConflictAlert card (never disabled): handleResolveAll
ResolveOne == ResolveBegins("conflictAlert")

\* ControlPanel's hold / expedite / reroute buttons: handleTrainAction(selectedTrain, action)
TrainAction ==
    /\ CanStart
    /\ ~loading
    /\ selectedTrain # ""
    /\ \E action \in Actions :
          /\ trains' = OptimisticEdit(trains, selectedTrain, action)
          /\ ev' = [Event("call", "action", TRUE) EXCEPT !.action = action]
    /\ FetchBegins
    /\ tasks' = Append(MarkTrainsWritten(tasks), FetchTask("action", "panel", FALSE))
    /\ toasts' = {}
    /\ phase' = "userActed"
    /\ calls' = calls + 1
    /\ UNCHANGED <<conflicts, isConnected, lastUpdate, now, mounted,
                   selectedTrain, tin, tclock, tout, apiVars>>

----------------------------------------------------------------------------
(* Responses of the backend *)

\* the reply to /live/snapshot of the fetch in place i
SnapshotResponse(i) ==
    /\ tasks[i].pc = "snapshot"
    /\ \/ \E backendState \in Snapshots :
             /\ SnapshotWrites(backendState)
             /\ tasks' = [MarkTrainsWritten(tasks) EXCEPT
                              ![i].pc = "predict", ![i].state = backendState,
                              ![i].trainsIntact = TRUE]
             /\ ev' = Reply(tasks[i], TRUE, FALSE, backendState, PredNone, Null)
             /\ toasts' = ReplyToasts(tasks[i], FALSE)
             /\ UNCHANGED phase
       \/ \E message \in Failures :
             /\ FetchFailureWrites(message)
             /\ tasks' = MarkFailed(Without(MarkOvertaken(tasks, i, "failed"), i))
             /\ ev' = Reply(tasks[i], FALSE, FALSE, NoState, PredNone, message)
             /\ toasts' = ReplyToasts(tasks[i], TRUE)
             /\ phase' = MountOutcome(tasks[i], FALSE)
    /\ UNCHANGED <<now, mounted, selectedTrain, calls, tin, tclock, tout, apiVars>>

\* the reply to /predict of the fetch in place i
PredictResponse(i) ==
    /\ tasks[i].pc = "predict"
    /\ \/ \E predictions \in Predictions :
             /\ FetchSuccessWrites(predictions)
             /\ tasks' = Without(MarkOvertaken(tasks, i, "ok"), i)
             /\ ev' = Reply(tasks[i], TRUE, FALSE, NoState, predictions, Null)
             /\ toasts' = ReplyToasts(tasks[i], TRUE)
             /\ phase' = MountOutcome(tasks[i], TRUE)
       \/ \E message \in Failures :
             /\ FetchFailureWrites(message)
             /\ tasks' = MarkFailed(Without(MarkOvertaken(tasks, i, "failed"), i))
             /\ ev' = Reply(tasks[i], FALSE, FALSE, NoState, PredNone, message)
             /\ toasts' = ReplyToasts(tasks[i], TRUE)
             /\ phase' = MountOutcome(tasks[i], FALSE)
    /\ UNCHANGED <<now, mounted, selectedTrain, calls, tin, tclock, tout, apiVars>>

\* the reply to /schedule of the optimizeSchedule in place i
ScheduleResponse(i) ==
    /\ tasks[i].pc = "schedule"
    /\ \/ /\ OptimizeSuccessWrites
          /\ tasks' = Without(tasks, i)
          /\ ev' = Reply(tasks[i], TRUE, FALSE, NoState, PredNone, Null)
          /\ toasts' = ReplyToasts(tasks[i], TRUE)
       \/ \E message \in Failures :
             /\ OptimizeFailureWrites(message)
             /\ tasks' = MarkFailed(Without(tasks, i))
             /\ ev' = Reply(tasks[i], FALSE, FALSE, NoState, PredNone, message)
             /\ toasts' = ReplyToasts(tasks[i], TRUE)
    /\ UNCHANGED <<now, mounted, selectedTrain, phase, calls, tin, tclock, tout, apiVars>>

\* the reply to the /predict of the resolveConflicts in place i
ResolvePredictResponse(i) ==
    /\ tasks[i].pc = "rpredict"
    /\ \/ \E predictions \in Predictions :
             /\ UNCHANGED hookVars
             /\ tasks' = [tasks EXCEPT ![i].pc = "rresolve",
                                       ![i].preds = predictions.predicted_conflicts]
             /\ ev' = Reply(tasks[i], TRUE, FALSE, NoState, predictions, Null)
             /\ toasts' = ReplyToasts(tasks[i], FALSE)
       \/ \E message \in Failures :
             /\ ResolveFailureWrites(message)
             /\ tasks' = MarkFailed(Without(tasks, i))
             /\ ev' = Reply(tasks[i], FALSE, FALSE, NoState, PredNone, message)
             /\ toasts' = ReplyToasts(tasks[i], TRUE)
    /\ UNCHANGED <<now, mounted, selectedTrain, phase, calls, tin, tclock, tout, apiVars>>

\* what resolveConflicts does once /resolve has succeeded
FollowUp(seq, i) == Append(Without(seq, i), FetchTask("resolve", seq[i].caller, FALSE))

\* mutant: the follow-up fetch is issued whether /resolve succeeded or failed
ResolveResponseAlwaysRefresh(i) ==
    /\ tasks[i].pc = "rresolve"
    /\ \/ /\ FetchBegins
          /\ tasks' = FollowUp(tasks, i)
          /\ ev' = Reply(tasks[i], TRUE, TRUE, NoState, PredNone, Null)
          /\ toasts' = ReplyToasts(tasks[i], FALSE)
          /\ UNCHANGED <<trains, conflicts, isConnected, lastUpdate>>
       \/ \E message \in Failures :
             /\ FetchBegins
             /\ tasks' = FollowUp(tasks, i)
             /\ ev' = Reply(tasks[i], FALSE, TRUE, NoState, PredNone, message)
             /\ toasts' = ReplyToasts(tasks[i], FALSE)
             /\ UNCHANGED <<trains, conflicts, isConnected, lastUpdate>>
    /\ UNCHANGED <<now, mounted, selectedTrain, phase, calls, tin, tclock, tout, apiVars>>

\* the reply to the /resolve of the resolveConflicts in place i; on success the
\* follow-up fetchLiveData() begins, as the newest fetch
ResolveResponse(i) ==
    /\ tasks[i].pc = "rresolve"
    /\ \/ /\ FetchBegins
          /\ tasks' = FollowUp(tasks, i)
          /\ ev' = Reply(tasks[i], TRUE, TRUE, NoState, PredNone, Null)
          /\ toasts' = ReplyToasts(tasks[i], FALSE)
          /\ UNCHANGED <<trains, conflicts, isConnected, lastUpdate>>
       \/ \E message \in Failures :
             /\ ResolveFailureWrites(message)
             /\ tasks' = MarkFailed(Without(tasks, i))
             /\ ev' = Reply(tasks[i], FALSE, FALSE, NoState, PredNone, message)
             /\ toasts' = ReplyToasts(tasks[i], TRUE)
    /\ UNCHANGED <<now, mounted, selectedTrain, phase, calls, tin, tclock, tout, apiVars>>

Response ==
    \E i \in 1..Len(tasks) :
        \/ SnapshotResponse(i)
        \/ PredictResponse(i)
        \/ ScheduleResponse(i)
        \/ ResolvePredictResponse(i)
        \/ ResolveResponse(i)

----------------------------------------------------------------------------

Next ==
    \/ Mount
    \/ TimerTick
    \/ Refresh
    \/ Connect
    \/ SelectTrain
    \/ Optimize
    \/ ResolveAll
    \/ ResolveOne
    \/ TrainAction
    \/ Response

Spec == Init /\ [][Next]_vars

TypeOK ==
    /\ isConnected \in BOOLEAN
    /\ loading \in BOOLEAN
    /\ Len(tasks) <= MaxInFlight
    /\ error \in Failures \cup {Null}
    /\ phase \in {"mounting", "mountOk", "mountFailed", "userActed"}

----------------------------------------------------------------------------
(* The transform functions on their own: inputs drawn from bounded sets *)

Routes ==
    { <<>>, <<"S1">>, <<"">>, <<"S1", "S2">>, <<"S1", "">>, <<"", "S2">>,
      <<"S1", "S2", "S3">>, <<"S4", "S2">> }

\* an optional number: absent, or present with a value
OptDue == { <<>>, <<0>>, <<2>> }
OptDelay == { <<>>, <<-1>>, <<0>>, <<3>> }
Clocks == {0, 500, 1500}

WithOpt(r, f, opt) == IF opt = <<>> THEN r ELSE r @@ (f :> opt[1])

BackendTrains ==
    { WithOpt(WithOpt([ id |-> "T1", priority |-> p, planned_departure |-> d,
                        route_sections |-> r ],
                      "due_time", due),
              "current_delay_minutes", delay) :
        p \in {1, 2}, d \in {0, 5}, r \in Routes, due \in OptDue,
        delay \in OptDelay }

SecondTrain ==
    [ id |-> "T2", priority |-> 1, planned_departure |-> 0,
      route_sections |-> <<"S2", "S3">>, due_time |-> 4,
      current_delay_minutes |-> 3 ]

TrainLists ==
    {<<>>} \cup { <<t>> : t \in BackendTrains }
           \cup { <<t, SecondTrain>> : t \in BackendTrains }

XformInit ==
    /\ HookInit
    /\ tin \in { [trains |-> l, sections |-> SnapA.sections] : l \in TrainLists }
    /\ tclock \in Clocks
    /\ tout = XformIdle
    /\ invocations = <<>>
    /\ wire = <<>>

\* transformBackendToFrontend(tin) at time tclock
ToFrontend ==
    /\ tout.stage = "input"
    /\ tout' = [tout EXCEPT !.stage = "ui",
                            !.ui = transformBackendToFrontend(tin, tclock).trains,
                            !.at = tclock]
    /\ UNCHANGED <<trains, conflicts, isConnected, lastUpdate, loading, error,
                   tasks, now, mounted, selectedTrain, calls, ev, phase,
                   toasts, tin,
                   tclock, apiVars>>

\* time passes between the two transforms
Elapse ==
    /\ tout.stage = "ui"
    /\ tclock \in Clocks
    /\ \E d \in {300, 1000} : tclock' = tclock + d
    /\ UNCHANGED <<trains, conflicts, isConnected, lastUpdate, loading, error,
                   tasks, now, mounted, selectedTrain, calls, ev, phase,
                   toasts, tin,
                   tout, apiVars>>

\* transformBackendToFrontend(tin) once more, at time tclock
ToFrontendAgain ==
    /\ tout.stage = "ui"
    /\ tout' = [tout EXCEPT !.stage = "again",
                            !.again = transformBackendToFrontend(tin, tclock).trains,
                            !.atAgain = tclock]
    /\ UNCHANGED <<trains, conflicts, isConnected, lastUpdate, loading, error,
                   tasks, now, mounted, selectedTrain, calls, ev, phase,
                   toasts, tin,
                   tclock, apiVars>>

\* transformFrontendToBackend of the projection, at time tclock
ToBackend ==
    /\ tout.stage = "ui"
    /\ tout' = [tout EXCEPT !.stage = "back",
                            !.back = transformFrontendToBackend(tout.ui, tclock)]
    /\ UNCHANGED <<trains, conflicts, isConnected, lastUpdate, loading, error,
                   tasks, now, mounted, selectedTrain, calls, ev, phase,
                   toasts, tin,
                   tclock, apiVars>>

XformNext == ToFrontend \/ Elapse \/ ToFrontendAgain \/ ToBackend

SpecXform == XformInit /\ [][XformNext]_vars

----------------------------------------------------------------------------
(* APIService on its own: method calls and the HTTP exchanges they cause *)

API_BASE_URL == "http://localhost:8000"

Undefined == "undefined"

\* JSON.stringify(value): the JSON text of value
JsonStringify(value) == <<"json", value>>

\* text is well-formed JSON
IsJson(text) == Len(text) = 2 /\ text[1] = "json"

\* JSON.parse(text) of well-formed JSON
JsonParse(text) == text[2]

\* the option body left undefined: the request has no body
NoBody == <<>>

\* default values of the optional parameters of the APIService methods
DefaultMaxTrains == 50
DefaultOtpTolerance == 300
DefaultSolver == "milp"

\* the endpoint and options each APIService method hands to request(); a
\* template string is the sequence of its parts, an optional argument is <<>>
\* when absent and <<value>> when given
getDemo == [ endpoint |-> <<"/demo">>, method |-> Undefined, body |-> NoBody ]

getLiveSnapshot(useLive, maxTrains, state) ==
    [ endpoint |-> <<"/live/snapshot?use_live=", useLive, "&max_trains=", maxTrains>>,
      method |-> "POST",
      body |-> IF state # <<>> THEN JsonStringify(state[1]) ELSE NoBody ]

predictConflicts(state) ==
    [ endpoint |-> <<"/predict">>, method |-> "POST", body |-> JsonStringify(state) ]

optimizeSchedule(state, otpTolerance) ==
    [ endpoint |-> <<"/schedule?otp_tolerance=", otpTolerance>>,
      method |-> "POST", body |-> JsonStringify(state) ]

resolveConflicts(state, predictedConflicts, solver, otpTolerance) ==
    [ endpoint |-> <<"/resolve?solver=", solver, "&otp_tolerance=", otpTolerance>>,
      method |-> "POST",
      body |-> JsonStringify([state |-> state,
                              predicted_conflicts |-> predictedConflicts]) ]

whatIfAnalysis(state, otpTolerance) ==
    [ endpoint |-> <<"/whatif?otp_tolerance=", otpTolerance>>,
      method |-> "POST", body |-> JsonStringify(state) ]

getKPIs(state, otpTolerance) ==
    [ endpoint |-> <<"/kpis?otp_tolerance=", otpTolerance>>,
      method |-> "POST", body |-> JsonStringify(state) ]

\* the arguments of fetch() in request()
HttpRequest(call) ==
    [ url |-> <<API_BASE_URL>> \o call.endpoint,
      method |-> call.method,
      contentType |-> "application/json",
      body |-> call.body ]

NoResponse == [status |-> 0, statusText |-> "", body |-> <<>>]

\* fetch() rejected: no response was received
NetworkError == [status |-> -1, statusText |-> "", body |-> <<>>]

\* mutant: a call identical to one still awaiting its response shares its request
SendCoalesced(q, k, call) ==
    IF \E j \in 1..Len(q) :
          q[j].request = HttpRequest(call) /\ q[j].response = NoResponse
    THEN q
    ELSE Append(q, [inv |-> k, request |-> HttpRequest(call),
                    response |-> NoResponse, json |-> "none"])

\* request(): the fetch() made for the method call in place k; json is the
\* progress of response.json(): none, reading, parsed, invalid or lost
Send(q, k, call) ==
    Append(q, [inv |-> k, request |-> HttpRequest(call), response |-> NoResponse,
               json |-> "none"])

\* response.ok
ResponseOk(response) == response.status >= 200 /\ response.status <= 299

Pending == [state |-> "pending", value |-> Undefined]
Resolved(value) == [state |-> "resolved", value |-> value]
Rejected(message) == [state |-> "rejected", value |-> message]

\* request() once fetch() has settled: it throws, or goes on to response.json()
Outcome(response) ==
    IF response = NetworkError THEN Rejected(<<"TypeError: Failed to fetch">>)
    ELSE IF ~ResponseOk(response) THEN
        Rejected(<<"API request failed: ", response.status, " ",
                   response.statusText>>)
    ELSE Pending

\* response.json() once the whole body has arrived
JsonOutcome(response) ==
    IF IsJson(response.body) THEN Resolved(JsonParse(response.body))
    ELSE Rejected(<<"SyntaxError">>)

\* response.json() when the connection drops while the body is read
BodyLost == Rejected(<<"TypeError: network error">>)

\* what the backend may answer
StatusLines ==
    { [status |-> 200, statusText |-> "OK"],
      [status |-> 299, statusText |-> ""],
      [status |-> 300, statusText |-> "Multiple Choices"],
      [status |-> 404, statusText |-> "Not Found"],
      [status |-> 500, statusText |-> "Internal Server Error"] }

Bodies == { JsonStringify(SnapB), JsonStringify(PredOne), <<>> }

Responses ==
    { [status |-> l.status, statusText |-> l.statusText, body |-> b] :
        l \in StatusLines, b \in Bodies }

\* the state the hook sends when it has no trains
EmptyState == transformFrontendToBackend(<<>>, 0)

\* the method calls made: those of the hook, which passes useLive and 50 to
\* getLiveSnapshot and no state, tolerance or solver, and calls of the exported
\* apiService with the other methods and the optional arguments given
ApiCalls ==
    { getLiveSnapshot(u, DefaultMaxTrains, <<>>) : u \in BOOLEAN }
        \cup { getLiveSnapshot(TRUE, 10, <<>>),
               getLiveSnapshot(TRUE, DefaultMaxTrains, <<SnapB>>),
               getDemo,
               predictConflicts(EmptyState),
               optimizeSchedule(EmptyState, DefaultOtpTolerance),
               optimizeSchedule(EmptyState, 60),
               resolveConflicts(EmptyState, PredOne.predicted_conflicts,
                                DefaultSolver, DefaultOtpTolerance),
               resolveConflicts(EmptyState, PredOne.predicted_conflicts,
                                "greedy", 60),
               whatIfAnalysis(EmptyState, DefaultOtpTolerance),
               getKPIs(EmptyState, DefaultOtpTolerance) }

ApiInit ==
    /\ HookInit
    /\ tin = NoState
    /\ tclock = 0
    /\ tout = XformIdle
    /\ invocations = <<>>
    /\ wire = <<>>

\* a caller invokes an APIService method
Invoke ==
    /\ Len(invocations) < MaxInvocations
    /\ \E call \in ApiCalls :
          /\ invocations' = Append(invocations, [call |-> call, outcome |-> Pending])
          /\ wire' = Send(wire, Len(invocations) + 1, call)
    /\ UNCHANGED <<trains, conflicts, isConnected, lastUpdate, loading, error,
                   tasks, now, mounted, selectedTrain, calls, ev, phase,
                   toasts, tin,
                   tclock, tout>>

\* fetch() settles for the request in place j of the wire: request() throws, or
\* calls response.json() and awaits the body
HttpResponse ==
    /\ \E j \in 1..Len(wire) :
          /\ wire[j].response = NoResponse
          /\ \E response \in Responses \cup {NetworkError} :
                /\ wire' = [wire EXCEPT
                              ![j].response = response,
                              ![j].json = IF Outcome(response).state = "pending"
                                          THEN "reading" ELSE "none"]
                /\ invocations' = [invocations EXCEPT
                                      ![wire[j].inv].outcome = Outcome(response)]
    /\ UNCHANGED <<trains, conflicts, isConnected, lastUpdate, loading, error,
                   tasks, now, mounted, selectedTrain, calls, ev, phase,
                   toasts, tin,
                   tclock, tout>>

\* response.json() settles for the request in place j of the wire: the body has
\* arrived and is parsed, or the connection dropped while it was read
ResponseJson ==
    /\ \E j \in 1..Len(wire) :
          /\ wire[j].json = "reading"
          /\ \/ /\ wire' = [wire EXCEPT
                              ![j].json = IF IsJson(wire[j].response.body)
                                          THEN "parsed" ELSE "invalid"]
                /\ invocations' = [invocations EXCEPT
                                      ![wire[j].inv].outcome =
                                          JsonOutcome(wire[j].response)]
             \/ /\ wire' = [wire EXCEPT ![j].json = "lost"]
                /\ invocations' = [invocations EXCEPT
                                      ![wire[j].inv].outcome = BodyLost]
    /\ UNCHANGED <<trains, conflicts, isConnected, lastUpdate, loading, error,
                   tasks, now, mounted, selectedTrain, calls, ev, phase,
                   toasts, tin,
                   tclock, tout>>

ApiNext == Invoke \/ HttpResponse \/ ResponseJson

SpecApi == ApiInit /\ [][ApiNext]_vars

\* the requests on the wire made for the method call in place k
RequestsOf(k) == {j \in 1..Len(wire) : wire[j].inv = k}

----------------------------------------------------------------------------
(* Events, as recorded in ev *)

IsReply == ev.kind = "reply"
FetchCompleted == IsReply /\ ev.pc \in FetchPcs /\ (ev.pc = "predict" \/ ~ev.ok)
FetchSucceeded == IsReply /\ ev.pc = "predict" /\ ev.ok
FetchFailed == IsReply /\ ev.pc \in FetchPcs /\ ~ev.ok
CallFailed == IsReply /\ ~ev.ok

BackendStatuses == {"on-time", "delayed"}
LocalStatuses == {"held", "expedited", "rerouting"}

HasLocalStatus(list) == \E i \in 1..Len(list) : list[i].status \in LocalStatuses

NumAt(seq, pc) == Cardinality({j \in 1..Len(seq) : seq[j].pc = pc})

----------------------------------------------------------------------------
(* C1 *)

\* C1: a fetch that completes with a failure leaves isConnected false and error
\* non-null, and a fetch that completes successfully leaves error null and
\* isConnected true.
C1_AsStated ==
    /\ FetchFailed => ~isConnected /\ error # Null
    /\ FetchSucceeded => isConnected /\ error = Null

----------------------------------------------------------------------------
(* C2 *)

\* C2: a timer tick starts a fetch exactly when isConnected is true; a tick
\* while isConnected is false starts no request and changes no hook state.
C2_TimerGated ==
    [][ ev'.kind = "tick" =>
          /\ ev'.startsFetch <=> isConnected
          /\ ~isConnected => UNCHANGED <<trains, conflicts, isConnected, lastUpdate,
                                         loading, error, tasks>> ]_vars

\* the timer has ticked while disconnected, with the error of a failed fetch shown
C2_Witness ==
    /\ ev.kind = "tick"
    /\ ~ev.startsFetch
    /\ ~isConnected
    /\ error # Null
    /\ tasks = <<>>

----------------------------------------------------------------------------
(* C3 *)

\* C3: the projection of a backend train is 'delayed' when its
\* current_delay_minutes is present and > 0 and 'on-time' otherwise; no other
\* status is produced.
C3_StatusFromDelay ==
    tout.stage # "input" =>
        /\ Len(tout.ui) = Len(tin.trains)
        /\ \A i \in 1..Len(tin.trains) :
              /\ tout.ui[i].status =
                    IF "current_delay_minutes" \in DOMAIN tin.trains[i]
                    THEN (IF tin.trains[i].current_delay_minutes > 0
                          THEN "delayed" ELSE "on-time")
                    ELSE "on-time"
              /\ tout.ui[i].status \in BackendStatuses

\* a train with a negative delay projected on-time beside a delayed train
C3_Witness ==
    /\ tout.stage = "ui"
    /\ Len(tin.trains) = 2
    /\ "current_delay_minutes" \in DOMAIN tin.trains[1]
    /\ tin.trains[1].current_delay_minutes < 0
    /\ tout.ui[1].status = "on-time"
    /\ tout.ui[2].status = "delayed"

----------------------------------------------------------------------------
(* C4 *)

\* C4: when a fetch completes after a fetch begun later has completed, its
\* writes replace those of the newer fetch: after its success conflicts are the
\* projection of its predictions, isConnected is true, error is null and
\* lastUpdate is the current time; after its failure isConnected is false and
\* error is its message.
C4_AsStated ==
    (FetchCompleted /\ ev.task.overtaken # "no") =>
        /\ ev.ok =>
              /\ conflicts = FrontendConflicts(ev.replyPreds)
              /\ isConnected
              /\ error = Null
              /\ lastUpdate = now
        /\ ~ev.ok =>
              /\ ~isConnected
              /\ error = ev.replyError

----------------------------------------------------------------------------
(* C5 *)

\* C5: every start of fetchLiveData sets loading to true and every completion of
\* fetchLiveData, successful or failed, sets loading to false.
C5_LoadingBracket ==
    /\ ev.startsFetch => loading
    /\ FetchCompleted => ~loading

\* a timer-triggered fetch has failed and loading is false
C5_Witness ==
    /\ FetchFailed
    /\ ev.task.caller = "timer"
    /\ ~loading

----------------------------------------------------------------------------
(* C6 *)

\* C6 as stated: every failure of a backend call leaves error non-null and
\* isConnected false.
C6_AsStated == CallFailed => error # Null /\ ~isConnected

\* C6 amended: every failure of a backend call leaves error non-null; a failure
\* inside fetchLiveData (also when nested in resolveConflicts or
\* handleTrainAction) sets isConnected to false, a failure of optimizeSchedule's
\* /schedule call or of resolveConflicts's /predict or /resolve call leaves
\* isConnected unchanged.
C6_FailureEffects ==
    [][ CallFailed' =>
          /\ error' = ev'.replyError
          /\ error' # Null
          /\ IF ev'.pc \in FetchPcs THEN ~isConnected'
             ELSE isConnected' = isConnected ]_vars

\* optimizeSchedule has failed and the hook is still connected
C6_Witness ==
    /\ CallFailed
    /\ ev.pc = "schedule"
    /\ error # Null
    /\ isConnected

----------------------------------------------------------------------------
(* C7 *)

\* C7 as stated: once handleTrainAction has completed, no train carries a
\* locally assigned status.
C7_AsStated ==
    (FetchCompleted /\ ev.op = "action") => ~HasLocalStatus(trains)

\* C7 amended: handleTrainAction applies its optimistic edit immediately and
\* always starts a fetchLiveData; when that fetch's snapshot request succeeds the
\* train list becomes the projection of the snapshot and no train carries a
\* locally assigned status; when the snapshot request fails the train list,
\* optimistic edit included, is left as it is.
C7_EditUntilSnapshot ==
    [][ /\ (ev'.kind = "call" /\ ev'.op = "action") =>
              /\ ev'.startsFetch
              /\ Len(tasks') = Len(tasks) + 1
              /\ tasks'[Len(tasks')].pc = "snapshot"
              /\ \E action \in Actions :
                    trains' = OptimisticEdit(trains, selectedTrain, action)
        /\ (IsReply' /\ ev'.op = "action" /\ ev'.pc = "snapshot" /\ ev'.ok) =>
              /\ trains' = transformBackendToFrontend(ev'.replyState, now).trains
              /\ ~HasLocalStatus(trains')
        /\ (IsReply' /\ ev'.op = "action" /\ ev'.pc = "snapshot" /\ ~ev'.ok) =>
              trains' = trains
      ]_vars

\* handleTrainAction has completed after a failed snapshot request and a train
\* still carries the locally assigned status
C7_Witness ==
    /\ FetchFailed
    /\ ev.op = "action"
    /\ ev.pc = "snapshot"
    /\ HasLocalStatus(trains)
    /\ tasks = <<>>

----------------------------------------------------------------------------
(* C8 *)

\* C8: while the fetch issued on mount has failed and the user has started no
\* operation, no request is in flight and isConnected is false, whatever the
\* number of timer ticks.
C8_NoSelfHealing ==
    phase = "mountFailed" => tasks = <<>> /\ ~isConnected

\* the timer has ticked after the failed mount fetch, with no user action
C8_Witness ==
    /\ phase = "mountFailed"
    /\ ev.kind = "tick"
    /\ now > 0

----------------------------------------------------------------------------
(* C9 *)

\* C9: resolveConflicts sends transformFrontendToBackend(trains) to /predict,
\* then the same payload with the predicted conflicts to /resolve; once both
\* have succeeded it starts exactly one fetchLiveData; a failure of either call
\* starts none; none of these steps changes trains or conflicts.
C9_ResolveSequence ==
    [][ /\ (ev'.kind = "call" /\ ev'.op = "resolve") =>
              /\ tasks' = Append(tasks,
                     PayloadTask("resolve", tasks'[Len(tasks')].caller, "rpredict",
                                 transformFrontendToBackend(trains, now)))
              /\ ~ev'.startsFetch
              /\ UNCHANGED <<trains, conflicts>>
        /\ (IsReply' /\ ev'.pc = "rpredict" /\ ev'.ok) =>
              /\ \E i \in 1..Len(tasks) :
                    /\ tasks[i].pc = "rpredict"
                    /\ tasks' = [tasks EXCEPT
                           ![i].pc = "rresolve",
                           ![i].preds = ev'.replyPreds.predicted_conflicts]
              /\ ~ev'.startsFetch
              /\ UNCHANGED <<trains, conflicts>>
        /\ (IsReply' /\ ev'.pc = "rresolve" /\ ev'.ok) =>
              /\ ev'.startsFetch
              /\ Len(tasks') = Len(tasks)
              /\ NumAt(tasks', "snapshot") = NumAt(tasks, "snapshot") + 1
              /\ NumAt(tasks', "rresolve") = NumAt(tasks, "rresolve") - 1
              /\ UNCHANGED <<trains, conflicts>>
        /\ (IsReply' /\ ev'.pc \in {"rpredict", "rresolve"} /\ ~ev'.ok) =>
              /\ ~ev'.startsFetch
              /\ Len(tasks') = Len(tasks) - 1
              /\ NumAt(tasks', "snapshot") = NumAt(tasks, "snapshot")
              /\ UNCHANGED <<trains, conflicts>>
      ]_vars

\* the follow-up fetch of a resolveConflicts has completed successfully
C9_Witness ==
    /\ FetchSucceeded
    /\ ev.op = "resolve"
    /\ tasks = <<>>

----------------------------------------------------------------------------
(* C10 *)

\* C10: optimizeSchedule sends transformFrontendToBackend(trains) to /schedule
\* and, whether the call succeeds or fails, neither its start nor its completion
\* changes trains, conflicts, isConnected or lastUpdate.
C10_OptimizeFrame ==
    [][ /\ (ev'.kind = "call" /\ ev'.op = "optimize") =>
              /\ tasks' = Append(tasks,
                     PayloadTask("optimize", "panel", "schedule",
                                 transformFrontendToBackend(trains, now)))
              /\ UNCHANGED <<trains, conflicts, isConnected, lastUpdate>>
        /\ (IsReply' /\ ev'.pc = "schedule") =>
              /\ Len(tasks') = Len(tasks) - 1
              /\ UNCHANGED <<trains, conflicts, isConnected, lastUpdate>>
      ]_vars

\* optimizeSchedule has succeeded on a non-empty train list
C10_Witness ==
    /\ IsReply
    /\ ev.pc = "schedule"
    /\ ev.ok
    /\ trains # <<>>
    /\ isConnected

----------------------------------------------------------------------------
(* C11 *)

\* C11 as stated: every APIService method call has exactly one HTTP request on
\* the wire; once request() has finished with the response, the call has failed
\* with an error carrying the status when the status is not 2xx and has returned
\* the parsed JSON body otherwise.
C11_AsStated ==
    /\ Len(wire) = Len(invocations)
    /\ \A k \in 1..Len(invocations) :
          /\ Cardinality(RequestsOf(k)) = 1
          /\ \A j \in RequestsOf(k) :
                LET response == wire[j].response
                    outcome == invocations[k].outcome
                IN  /\ (response.status > 0
                        /\ ~(response.status \in 200..299)) =>
                          /\ outcome.state = "rejected"
                          /\ outcome.value[2] = response.status
                    /\ (response.status \in 200..299
                        /\ wire[j].json # "reading") =>
                          /\ outcome.state = "resolved"
                          /\ JsonStringify(outcome.value) = response.body

\* C11 amended: every APIService method call has exactly one HTTP request on the
\* wire, its own, whether or not an identical call is in flight and whatever the
\* response; the call is pending until that request is answered, fails without
\* a status when fetch() rejects, and fails with an error carrying the status
\* and status text as soon as a response whose status is not 2xx is in. On a
\* 2xx response it never fails with a status error: it is pending while the
\* body is read, returns the parsed JSON body when the body has arrived and is
\* JSON, and fails with a SyntaxError when the body is not JSON and with a
\* TypeError when the body is lost while it is read.
C11_OneRequestPerCall ==
    /\ Len(wire) = Len(invocations)
    /\ \A k \in 1..Len(invocations) :
          /\ Cardinality(RequestsOf(k)) = 1
          /\ \A j \in RequestsOf(k) :
                LET response == wire[j].response
                    outcome == invocations[k].outcome
                IN  /\ wire[j].request.url =
                          <<API_BASE_URL>> \o invocations[k].call.endpoint
                    /\ wire[j].request.method = invocations[k].call.method
                    /\ wire[j].request.body = invocations[k].call.body
                    /\ response = NoResponse => outcome.state = "pending"
                    /\ response = NetworkError =>
                          /\ wire[j].json = "none"
                          /\ outcome = Rejected(<<"TypeError: Failed to fetch">>)
                    /\ (response.status > 0
                        /\ ~(response.status \in 200..299)) =>
                          /\ wire[j].json = "none"
                          /\ outcome.state = "rejected"
                          /\ outcome.value[1] = "API request failed: "
                          /\ outcome.value[2] = response.status
                          /\ outcome.value[4] = response.statusText
                    /\ response.status \in 200..299 =>
                          /\ wire[j].json # "none"
                          /\ wire[j].json = "reading" <=> outcome.state = "pending"
                          /\ wire[j].json = "parsed" <=> outcome.state = "resolved"
                          /\ wire[j].json = "parsed" =>
                                /\ IsJson(response.body)
                                /\ JsonStringify(outcome.value) = response.body
                          /\ wire[j].json = "invalid" =>
                                /\ ~IsJson(response.body)
                                /\ outcome = Rejected(<<"SyntaxError">>)
                          /\ wire[j].json = "lost" =>
                                outcome = Rejected(<<"TypeError: network error">>)

\* two identical calls were made while both were in flight and both were
\* answered 200: the body of one was not JSON and the call failed, the body of
\* the other was read and returned
C11_Witness ==
    /\ Len(invocations) = 2
    /\ Len(wire) = 2
    /\ invocations[1].call = invocations[2].call
    /\ wire[1].response.status = 200
    /\ wire[1].json = "invalid"
    /\ invocations[1].outcome.state = "rejected"
    /\ wire[2].response.status = 200
    /\ wire[2].json = "parsed"
    /\ invocations[2].outcome = Resolved(SnapB)

----------------------------------------------------------------------------
(* C12 *)

\* C12: whatever the train list given to transformFrontendToBackend, the empty
\* list included, the result has exactly three sections, with ids S1, S2, S3 in
\* this order, each with platform_capacity 1.
C12_ThreeSections ==
    tout.stage = "back" =>
        /\ Len(tout.back.sections) = 3
        /\ tout.back.sections[1].id = "S1"
        /\ tout.back.sections[2].id = "S2"
        /\ tout.back.sections[3].id = "S3"
        /\ \A i \in 1..3 :
              /\ DOMAIN tout.back.sections[i] = {"id", "platform_capacity"}
              /\ tout.back.sections[i].platform_capacity = 1
        /\ Len(tout.back.trains) = Len(tout.ui)

\* the empty train list has been transformed
C12_Witness ==
    /\ tout.stage = "back"
    /\ tout.ui = <<>>
    /\ tout.back.trains = <<>>
    /\ Len(tout.back.sections) = 3

----------------------------------------------------------------------------
(* C13 *)

\* C13 as stated: the projection of a backend train keeps the id, has delay
\* current_delay_minutes (0 when absent), currentLocation the first route section
\* ('Unknown' when the route is empty) and nextStation the second route section
\* (the first when the route has one entry, 'Terminal' when it is empty).
C13_AsStated ==
    tout.stage # "input" =>
        \A i \in 1..Len(tin.trains) :
            LET train == tin.trains[i]
                route == train.route_sections
            IN  /\ tout.ui[i].id = train.id
                /\ tout.ui[i].delay =
                      IF "current_delay_minutes" \in DOMAIN train
                      THEN train.current_delay_minutes ELSE 0
                /\ tout.ui[i].currentLocation =
                      IF Len(route) = 0 THEN "Unknown" ELSE route[1]
                /\ tout.ui[i].nextStation =
                      IF Len(route) >= 2 THEN route[2]
                      ELSE IF Len(route) = 1 THEN route[1]
                      ELSE "Terminal"

\* C13 amended: the projection of a backend train keeps the id, has delay
\* current_delay_minutes (0 when absent), currentLocation the first route section
\* when there is one and it is not the empty string ('Unknown' otherwise), and
\* nextStation the second route section when there is one and it is not the
\* empty string, otherwise the first under the same condition, otherwise
\* 'Terminal'.
C13_Projection ==
    tout.stage # "input" =>
        /\ Len(tout.ui) = Len(tin.trains)
        /\ \A i \in 1..Len(tin.trains) :
              LET train == tin.trains[i]
                  route == train.route_sections
                  first == IF Len(route) >= 1 THEN route[1] ELSE ""
                  second == IF Len(route) >= 2 THEN route[2] ELSE ""
              IN  /\ tout.ui[i].id = train.id
                  /\ tout.ui[i].delay =
                        IF "current_delay_minutes" \in DOMAIN train
                        THEN train.current_delay_minutes ELSE 0
                  /\ tout.ui[i].currentLocation =
                        IF first # "" THEN first ELSE "Unknown"
                  /\ tout.ui[i].nextStation =
                        IF second # "" THEN second
                        ELSE IF first # "" THEN first
                        ELSE "Terminal"

\* a train whose route is one section and whose delay is absent was projected
\* beside the train T2 of two sections and delay 3
C13_Witness ==
    /\ tout.stage = "ui"
    /\ Len(tin.trains) = 2
    /\ tin.trains[1].route_sections = <<"S1">>
    /\ ~("current_delay_minutes" \in DOMAIN tin.trains[1])
    /\ tout.ui[1].currentLocation = "S1"
    /\ tout.ui[1].nextStation = "S1"
    /\ tout.ui[1].delay = 0
    /\ tout.ui[2].nextStation = "S3"
    /\ tout.ui[2].delay = 3

----------------------------------------------------------------------------
(* C14 *)

\* C14: when a fetch succeeds, conflicts has one entry per predicted conflict, in
\* the order of the prediction: its location is the section_id, its
\* timeToConflict the predicted_conflict_time, its trains the train_ids, its
\* severity 'medium', its id 'conflict-' followed by its 0-based index, so that
\* no two entries share an id, and its resolution text names every train id of
\* the conflict.
C14_ConflictMapping ==
    FetchSucceeded =>
        LET predicted == ev.replyPreds.predicted_conflicts
        IN  /\ Len(conflicts) = Len(predicted)
            /\ \A i \in 1..Len(predicted) :
                  /\ conflicts[i].location = predicted[i].section_id
                  /\ conflicts[i].timeToConflict = predicted[i].predicted_conflict_time
                  /\ conflicts[i].trains = predicted[i].train_ids
                  /\ conflicts[i].severity = "medium"
                  /\ conflicts[i].id = <<"conflict-", i - 1>>
                  /\ \A k \in 1..Len(predicted[i].train_ids) :
                        \E m \in 1..Len(conflicts[i].aiResolution[2]) :
                            conflicts[i].aiResolution[2][m] = predicted[i].train_ids[k]
            /\ \A i, j \in 1..Len(conflicts) :
                  i # j => conflicts[i].id # conflicts[j].id

\* a fetch has succeeded with a prediction of two conflicts
C14_Witness ==
    /\ FetchSucceeded
    /\ Len(ev.replyPreds.predicted_conflicts) = 2
    /\ Len(conflicts) = 2
    /\ conflicts[1].location = "S2"
    /\ conflicts[1].timeToConflict = 12
    /\ conflicts[1].trains = <<"T1", "T2">>
    /\ conflicts[2].id = <<"conflict-", 1>>

----------------------------------------------------------------------------
(* C15 *)

\* C15: transformFrontendToBackend of the projection of a backend state gives
\* every train priority 1, planned_departure 0 and a route of exactly two
\* sections, so a backend train whose priority is not 1, whose planned_departure
\* is not 0 or whose route is not two sections long differs from what the round
\* trip returns for it.
C15_LossyRoundTrip ==
    tout.stage = "back" =>
        /\ Len(tout.back.trains) = Len(tin.trains)
        /\ \A i \in 1..Len(tin.trains) :
              LET original == tin.trains[i]
                  returned == tout.back.trains[i]
              IN  /\ returned.priority = 1
                  /\ returned.planned_departure = 0
                  /\ Len(returned.route_sections) = 2
                  /\ (\/ original.priority # 1
                      \/ original.planned_departure # 0
                      \/ Len(original.route_sections) # 2)
                        => returned # original

\* a train of priority 2 and a route of three sections came back with priority 1
\* and a route of two, beside the train T2, which came back as it was
C15_Witness ==
    /\ tout.stage = "back"
    /\ Len(tin.trains) = 2
    /\ tin.trains[1].priority = 2
    /\ Len(tin.trains[1].route_sections) = 3
    /\ tout.back.trains[1].priority = 1
    /\ tout.back.trains[1].route_sections = <<"S1", "S2">>
    /\ tout.back.trains[1] # tin.trains[1]
    /\ tout.back.trains[2] = tin.trains[2]

----------------------------------------------------------------------------
(* C16 *)

\* C16: the eta of a projected train is the clock value at the time of the
\* transform plus due_time seconds (plus 0 when due_time is absent), so two
\* transforms of the same backend state at different clock values give the same
\* train etas that differ, by the difference of the clock values.
C16_EtaFromClock ==
    /\ tout.stage # "input" =>
          \A i \in 1..Len(tin.trains) :
              tout.ui[i].eta =
                  tout.at + (IF "due_time" \in DOMAIN tin.trains[i]
                             THEN tin.trains[i].due_time ELSE 0) * 1000
    /\ tout.stage = "again" =>
          /\ Len(tout.again) = Len(tout.ui)
          /\ \A i \in 1..Len(tout.ui) :
                /\ tout.again[i].id = tout.ui[i].id
                /\ tout.again[i].eta - tout.ui[i].eta = tout.atAgain - tout.at
                /\ tout.atAgain # tout.at => tout.again[i].eta # tout.ui[i].eta

\* the same backend state was transformed at two clock values 300 ms apart and
\* the etas of a train without due_time differ
C16_Witness ==
    /\ tout.stage = "again"
    /\ tout.atAgain = tout.at + 300
    /\ Len(tin.trains) = 2
    /\ ~("due_time" \in DOMAIN tin.trains[1])
    /\ tout.ui[1].eta = tout.at
    /\ tout.again[1].eta = tout.atAgain
    /\ tout.again[2].eta # tout.ui[2].eta

----------------------------------------------------------------------------
(* C17 *)

\* C17: in every reachable state, every train of the train list has the status
\* on-time, delayed or conflict.
C17_ThreeValuedStatus ==
    \A i \in 1..Len(trains) : trains[i].status \in {"on-time", "delayed", "conflict"}

----------------------------------------------------------------------------
(* C18 *)

\* the clock values at which a snapshot can have been projected
ProjectionClocks == {k * RefreshMs : k \in 0..(MaxTicks + 1)}

\* list is exactly the projection of backendState, made at some clock value
IsProjection(list, backendState) ==
    \E clock \in ProjectionClocks :
        list = transformBackendToFrontend(backendState, clock).trains

\* C18 as stated: when a fetch has succeeded, trains is exactly the projection
\* of the snapshot that fetch received and conflicts exactly the projection of
\* the predictions it received.
C18_AsStated ==
    FetchSucceeded =>
        /\ IsProjection(trains, ev.snapshot)
        /\ conflicts = FrontendConflicts(ev.replyPreds)

\* C18 amended: a successful snapshot reply replaces trains by exactly the
\* projection of the returned snapshot; a successful /predict reply replaces
\* conflicts by exactly the projection of the returned predictions and leaves
\* trains as they are; so when the fetch succeeds, trains is the projection of
\* its own snapshot (same trains, same ids, same order) provided no other
\* snapshot reply and no train action wrote trains between its two replies.
C18_FullRecompute ==
    [][ /\ (IsReply' /\ ev'.pc = "snapshot" /\ ev'.ok) =>
              /\ trains' = transformBackendToFrontend(ev'.replyState, now).trains
              /\ Len(trains') = Len(ev'.replyState.trains)
              /\ \A i \in 1..Len(trains') : trains'[i].id = ev'.replyState.trains[i].id
        /\ FetchSucceeded' =>
              /\ conflicts' = FrontendConflicts(ev'.replyPreds)
              /\ Len(conflicts') = Len(ev'.replyPreds.predicted_conflicts)
              /\ trains' = trains
              /\ ev'.task.trainsIntact => IsProjection(trains', ev'.snapshot)
      ]_vars

\* the follow-up fetch of a resolveConflicts, started with conflicts listed, has
\* succeeded undisturbed with the one-train snapshot and no predicted conflict:
\* one train and no conflict are listed
C18_Witness ==
    /\ FetchSucceeded
    /\ ev.op = "resolve"
    /\ ev.task.trainsIntact
    /\ ev.snapshot = SnapB
    /\ ev.replyPreds = PredNone
    /\ Len(trains) = 1
    /\ conflicts = <<>>

----------------------------------------------------------------------------
(* C19 *)

\* C19: when the live fetch of handleConnectBackend has succeeded the dashboard
\* reports 'Connected Successfully'; when it has failed the dashboard does not
\* report 'Connected Successfully' and a demo fetch (fetchLiveData(false)) of
\* handleConnectBackend is under way, to be followed by the report 'Demo Mode'.
C19_ConnectFallback ==
    (FetchCompleted /\ ev.task.caller = "connect" /\ ev.task.useLive) =>
        IF ev.ok
        THEN "Connected Successfully" \in toasts
        ELSE /\ ~("Connected Successfully" \in toasts)
             /\ \E j \in 1..Len(tasks) :
                   /\ tasks[j].caller = "connect"
                   /\ ~tasks[j].useLive
                   /\ tasks[j].pc = "snapshot"

----------------------------------------------------------------------------
(* C20 *)

\* C20: an operator action changes the delay of the selected train as its
\* control-panel label announces, hold +5, expedite -3 but not below 0, reroute
\* +2, when the hook's handleTrainAction handles it, and the update of the local
\* fallback carries the same delay.
C20_DelayMatchesLabel ==
    [][ (ev'.kind = "call" /\ ev'.op = "action") =>
            \A i \in 1..Len(trains) :
                /\ LocalTrainUpdate(trains[i], ev'.action).delay =
                      LabelledDelay(ev'.action, trains[i].delay)
                /\ trains[i].id = selectedTrain =>
                      trains'[i].delay = LabelledDelay(ev'.action, trains[i].delay)
      ]_vars

----------------------------------------------------------------------------
(* C21 *)

\* C21: the optimistic edit of handleTrainAction(trainId, action) keeps the
\* length and order of the train list, leaves every train whose id is not
\* trainId as it is and changes nothing but status and delay of the train whose
\* id is trainId; when no train has that id the list is unchanged, and so it is
\* for an action other than hold, expedite and reroute; in every case a
\* fetchLiveData is started.
C21_EditFrame ==
    [][ (ev'.kind = "call" /\ ev'.op = "action") =>
            /\ Len(trains') = Len(trains)
            /\ \A i \in 1..Len(trains) :
                  /\ trains[i].id # selectedTrain => trains'[i] = trains[i]
                  /\ DOMAIN trains'[i] = DOMAIN trains[i]
                  /\ \A f \in DOMAIN trains[i] \ {"status", "delay"} :
                        trains'[i][f] = trains[i][f]
            /\ (\A i \in 1..Len(trains) : trains[i].id # selectedTrain)
                  => trains' = trains
            /\ \A id \in {"T1", "T2", "T9"} :
                  OptimisticEdit(trains, id, "stop") = trains
            /\ ev'.startsFetch
            /\ Len(tasks') = Len(tasks) + 1
            /\ tasks'[Len(tasks')].pc = "snapshot"
            /\ tasks'[Len(tasks')].op = "action"
      ]_vars

\* an action was applied while the selected train was no longer in the list:
\* the list is as it was and the refetch is in flight
C21_Witness ==
    /\ ev.kind = "call"
    /\ ev.op = "action"
    /\ trains # <<>>
    /\ \A i \in 1..Len(trains) :
          /\ trains[i].id # selectedTrain
          /\ trains[i].status \in BackendStatuses
    /\ selectedTrain # ""
    /\ loading
    /\ tasks # <<>>
    /\ tasks[Len(tasks)].op = "action"

----------------------------------------------------------------------------
(* C22 *)

\* C22: every fetchLiveData begins by awaiting its snapshot request; it awaits
\* its predict request only from the successful snapshot reply on, with the
\* backend state that reply returned as the request's payload; isConnected
\* becomes true and lastUpdate changes only in the step of a successful predict
\* reply, that is once both requests of one fetch have succeeded.
C22_FetchOrder ==
    [][ /\ ev'.startsFetch =>
              /\ tasks'[Len(tasks')].pc = "snapshot"
              /\ tasks'[Len(tasks')].state = NoState
        /\ NumAt(tasks', "predict") > NumAt(tasks, "predict") =>
              /\ IsReply' /\ ev'.pc = "snapshot" /\ ev'.ok
              /\ \E i \in 1..Len(tasks) :
                    /\ tasks[i].pc = "snapshot"
                    /\ tasks' = [MarkTrainsWritten(tasks) EXCEPT
                                    ![i].pc = "predict",
                                    ![i].state = ev'.replyState,
                                    ![i].trainsIntact = TRUE]
              /\ UNCHANGED <<isConnected, lastUpdate>>
        /\ (IsReply' /\ ev'.pc = "snapshot" /\ ev'.ok) =>
              NumAt(tasks', "predict") = NumAt(tasks, "predict") + 1
        /\ (isConnected' /\ ~isConnected) => FetchSucceeded'
        /\ lastUpdate' # lastUpdate => FetchSucceeded'
        /\ FetchSucceeded' =>
              /\ ev'.snapshot \in Snapshots
              /\ isConnected'
              /\ lastUpdate' = now
      ]_vars

\* the snapshot of the first fetch has arrived and its predict request, carrying
\* that snapshot, is awaited: the hook is not yet connected and lastUpdate is
\* still the initial one
C22_Witness ==
    /\ IsReply
    /\ ev.pc = "snapshot"
    /\ ev.ok
    /\ Len(tasks) = 1
    /\ tasks[1].pc = "predict"
    /\ tasks[1].state = SnapA
    /\ trains # <<>>
    /\ ~isConnected
    /\ lastUpdate = 0

----------------------------------------------------------------------------
(* C23 *)

\* the ids of the sections a payload lists
SectionIds(payload) == {payload.sections[k].id : k \in 1..Len(payload.sections)}

\* C23 as stated: in every payload of transformFrontendToBackend every entry of
\* every train's route_sections is the id of a section the payload lists.
C23_AsStated ==
    tout.stage = "back" =>
        \A i \in 1..Len(tout.back.trains) :
            \A k \in 1..Len(tout.back.trains[i].route_sections) :
                tout.back.trains[i].route_sections[k] \in SectionIds(tout.back)

\* C23 amended: in every payload of transformFrontendToBackend the sections
\* listed are S1, S2 and S3 and every train's route_sections is the pair of the
\* UI train's currentLocation and nextStation; a route entry is the id of a
\* listed section exactly when that location is S1, S2 or S3.
C23_RouteFromLocations ==
    tout.stage = "back" =>
        /\ SectionIds(tout.back) = {"S1", "S2", "S3"}
        /\ Len(tout.back.trains) = Len(tout.ui)
        /\ \A i \in 1..Len(tout.ui) :
              LET route == tout.back.trains[i].route_sections
              IN  /\ route = <<tout.ui[i].currentLocation, tout.ui[i].nextStation>>
                  /\ route[1] \in SectionIds(tout.back)
                        <=> tout.ui[i].currentLocation \in {"S1", "S2", "S3"}
                  /\ route[2] \in SectionIds(tout.back)
                        <=> tout.ui[i].nextStation \in {"S1", "S2", "S3"}

\* a train without route was sent with the route Unknown, Terminal, neither of
\* them a listed section, beside the train T2 whose route S2, S3 is listed
C23_Witness ==
    /\ tout.stage = "back"
    /\ Len(tin.trains) = 2
    /\ tin.trains[1].route_sections = <<>>
    /\ tout.back.trains[1].route_sections = <<"Unknown", "Terminal">>
    /\ ~("Unknown" \in SectionIds(tout.back))
    /\ tout.back.trains[2].route_sections = <<"S2", "S3">>

----------------------------------------------------------------------------
(* C24 *)

\* C24: a fetch whose snapshot request fails changes neither trains nor
\* conflicts; a fetch whose snapshot request succeeds replaces trains by the
\* projection of that snapshot and, when its predict request then fails, changes
\* neither trains nor conflicts any more: the new trains stay, with the
\* conflicts that were listed before.
C24_PartialFailure ==
    [][ /\ (IsReply' /\ ev'.pc = "snapshot" /\ ~ev'.ok) =>
              UNCHANGED <<trains, conflicts>>
        /\ (IsReply' /\ ev'.pc = "snapshot" /\ ev'.ok) =>
              /\ trains' = transformBackendToFrontend(ev'.replyState, now).trains
              /\ conflicts' = conflicts
        /\ (IsReply' /\ ev'.pc = "predict" /\ ~ev'.ok) =>
              /\ UNCHANGED <<trains, conflicts>>
              /\ ev'.task.trainsIntact => IsProjection(trains', ev'.snapshot)
      ]_vars

\* a fetch has failed at its predict request after its snapshot replaced the
\* train list by the one train T1: the two conflicts listed before, one of them
\* about T2, are still listed
C24_Witness ==
    /\ FetchFailed
    /\ ev.pc = "predict"
    /\ ev.task.trainsIntact
    /\ ev.snapshot = SnapB
    /\ Len(trains) = 1
    /\ Len(conflicts) = 2
    /\ ~isConnected

----------------------------------------------------------------------------
(* C25 *)

\* C25: whenever a backend call of fetchLiveData, optimizeSchedule,
\* resolveConflicts or handleTrainAction fails, the operation records the
\* failure's message in error, ends with loading false and returns normally: the
\* dashboard handler awaiting it goes on to its report of success ('Connected
\* Successfully', 'Schedule Optimized', 'Conflicts Resolved') and starts no
\* further request; a failure inside a fetch, nested or not, is recorded by the
\* fetch itself, which also sets isConnected to false.
C25_NeverRejects ==
    CallFailed =>
        /\ error = ev.replyError
        /\ error # Null
        /\ ~loading
        /\ ~ev.startsFetch
        /\ ev.pc \in FetchPcs => ~isConnected
        /\ ev.task.caller = "connect" =>
              /\ "Connected Successfully" \in toasts
              /\ ~("Demo Mode" \in toasts)
        /\ ev.op = "optimize" => "Schedule Optimized" \in toasts
        /\ ev.op = "resolve" => "Conflicts Resolved" \in toasts

\* the fetch nested in resolveConflicts has failed: the fetch recorded the
\* error and the disconnection, and handleResolveAll reported its success
C25_Witness ==
    /\ CallFailed
    /\ ev.op = "resolve"
    /\ ev.pc \in FetchPcs
    /\ error # Null
    /\ ~isConnected
    /\ "Conflicts Resolved" \in toasts
    /\ "Connection Error" \in toasts

----------------------------------------------------------------------------
(* C26 *)

\* C26 as stated: when a fetch has succeeded and no operation is in flight, the
\* conflicts are the projection of the predictions that fetch received for its
\* snapshot and the trains are the projection of that same snapshot.
C26_AsStated ==
    (FetchSucceeded /\ tasks = <<>>) =>
        /\ conflicts = FrontendConflicts(ev.replyPreds)
        /\ IsProjection(trains, ev.snapshot)

\* C26 amended: when a fetch succeeds leaving no operation in flight, the
\* conflicts are the projection of the predictions it received for its snapshot,
\* and the trains are the projection of that same snapshot provided no other
\* fetch's snapshot reply and no train action wrote trains between its two
\* replies; trains and conflicts then stay as they are until a snapshot reply, a
\* successful predict reply or a train action, so through every state in which
\* that fetch is the last to have completed and nothing is in flight.
C26_ConsistentWhenUndisturbed ==
    [][ /\ (FetchSucceeded' /\ tasks' = <<>>) =>
              /\ conflicts' = FrontendConflicts(ev'.replyPreds)
              /\ ev'.task.trainsIntact => IsProjection(trains', ev'.snapshot)
        /\ (trains' # trains \/ conflicts' # conflicts) =>
              \/ IsReply' /\ ev'.pc = "snapshot" /\ ev'.ok
              \/ FetchSucceeded'
              \/ ev'.kind = "call" /\ ev'.op = "action"
        /\ (tasks = <<>> /\ tasks' = <<>>) => UNCHANGED <<trains, conflicts>>
      ]_vars

\* two fetches overlapped, the newer received both replies inside the older's
\* snapshot request; the older has succeeded last, nothing is in flight, and
\* trains and conflicts are both the older fetch's
C26_Witness ==
    /\ FetchSucceeded
    /\ tasks = <<>>
    /\ ev.task.trainsIntact
    /\ ev.task.overtaken = "ok"
    /\ ev.snapshot = SnapA
    /\ IsProjection(trains, SnapA)
    /\ conflicts = FrontendConflicts(PredTwo)

----------------------------------------------------------------------------
(* C27 *)

\* the step starts an operation, or the fetch nested in resolveConflicts
OperationStarts == ev'.kind \in {"mount", "call"} \/ ev'.startsFetch

\* the step is the reply that ends an operation
OperationEnds == IsReply' /\ Len(tasks') < Len(tasks)

\* C27 as stated: loading is true exactly when an operation is in flight.
C27_AsStated == loading <=> tasks # <<>>

\* C27 amended: loading is false whenever no operation is in flight; it is set
\* whenever an operation (or the fetch nested in resolveConflicts) starts, reset
\* whenever an operation ends, and unchanged by every other step, so it is true
\* from the latest start until the first operation to end after it, even when
\* other operations are then still awaiting a response.
C27_LastWriteWins ==
    [][ /\ tasks' = <<>> => ~loading'
        /\ OperationStarts => loading'
        /\ OperationEnds => ~loading'
        /\ ~(OperationStarts \/ OperationEnds) => loading' = loading
      ]_vars

\* of two overlapping operations one has ended and reset loading while the other
\* still awaits its /predict reply
C27_Witness ==
    /\ IsReply
    /\ ev.op = "optimize"
    /\ ~loading
    /\ Len(tasks) = 1
    /\ tasks[1].pc = "predict"

----------------------------------------------------------------------------
(* C28 *)

\* the step is the successful reply that ends the requests of an
\* optimizeSchedule or of a resolveConflicts
CallSucceeds == IsReply' /\ ev'.ok /\ ev'.pc \in {"schedule", "rresolve"}

\* C28 as stated: a displayed error is reset only by a step that starts a
\* fetch, and the success of an optimizeSchedule or resolveConflicts call leaves
\* the error as it was.
C28_AsStated ==
    [][ /\ (error # Null /\ error' = Null) => ev'.startsFetch
        /\ CallSucceeds => error' = error
      ]_vars

\* C28 amended: a displayed error is reset exactly by the steps that start a
\* fetch and otherwise stays set; the success of optimizeSchedule and of the
\* /predict request of resolveConflicts leave it as it was, but the success of
\* the /resolve request starts the follow-up fetch, which resets it.
C28_ClearedAtFetchStart ==
    [][ /\ (error # Null /\ error' = Null) => ev'.startsFetch
        /\ ev'.startsFetch => error' = Null
        /\ (error # Null /\ ~ev'.startsFetch) => error' # Null
        /\ (IsReply' /\ ev'.ok /\ ev'.pc \in {"schedule", "rpredict"}) =>
              error' = error
        /\ (IsReply' /\ ev'.ok /\ ev'.pc = "rresolve") =>
              ev'.startsFetch /\ error' = Null
      ]_vars

\* /resolve has succeeded while an error was displayed: the follow-up fetch has
\* begun and the error is gone
C28_Witness ==
    /\ IsReply /\ ev.pc = "rresolve" /\ ev.ok
    /\ tasks # <<>>
    /\ tasks[Len(tasks)].op = "resolve"
    /\ tasks[Len(tasks)].pc = "snapshot"
    /\ tasks[Len(tasks)].afterFailure
    /\ error = Null

----------------------------------------------------------------------------
(* C29 *)

\* C29: lastUpdate changes only in the step that completes a fetch successfully,
\* where it becomes the time of that step; a failed fetch, a timer tick while
\* disconnected, the start and both outcomes of optimizeSchedule, and the
\* optimistic edit of handleTrainAction leave it unchanged.
C29_LastUpdateFrame ==
    [][ /\ lastUpdate' # lastUpdate => FetchSucceeded'
        /\ FetchSucceeded' => lastUpdate' = now'
        /\ FetchFailed' => lastUpdate' = lastUpdate
        /\ (ev'.kind = "tick" /\ ~isConnected) =>
              /\ lastUpdate' = lastUpdate
              /\ ~ev'.startsFetch
        /\ ev'.op = "optimize" => lastUpdate' = lastUpdate
        /\ (ev'.kind = "call" /\ ev'.op = "action") => lastUpdate' = lastUpdate
      ]_vars

\* a train action was taken after the refresh interval had elapsed and its
\* fetch has just succeeded: lastUpdate has moved from the mount time to now
C29_Witness ==
    /\ FetchSucceeded
    /\ ev.op = "action"
    /\ now = RefreshMs
    /\ lastUpdate = now

----------------------------------------------------------------------------
(* C30 *)

\* every current_delay_minutes in the snapshots the backend returns is >= 0
BackendDelaysNonNegative ==
    \A s \in Snapshots : \A i \in 1..Len(s.trains) :
        Has(s.trains[i], "current_delay_minutes") =>
            s.trains[i].current_delay_minutes >= 0

\* C30: when the backend returns no negative current_delay_minutes, every
\* displayed train has a delay >= 0 in every reachable state, whatever fetches
\* and hold, expedite and reroute actions led to it; in particular the train an
\* expedite has just edited.
C30_DelayNonNegative ==
    BackendDelaysNonNegative =>
        /\ \A i \in 1..Len(trains) : trains[i].delay >= 0
        /\ (ev.kind = "call" /\ ev.action = "expedite") =>
              \A i \in 1..Len(trains) :
                  trains[i].id = selectedTrain =>
                      trains[i].status = "expedited" /\ trains[i].delay >= 0

\* T1, reported three minutes late, has just been expedited: its delay is 0,
\* not -2
C30_Witness ==
    /\ BackendDelaysNonNegative
    /\ ev.kind = "call" /\ ev.action = "expedite"
    /\ selectedTrain = "T1"
    /\ \E i \in 1..Len(trains) :
          /\ trains[i].id = "T1"
          /\ trains[i].status = "expedited"
          /\ trains[i].delay = 0

====
